---- MODULE Spec2Model ----
(***************************************************************************)
(* The packet transmission simulator of network_topology_visualizer.py:    *)
(* the topology tables of NetworkVisualizerApp, the unicast animation      *)
(* (_animate_smooth), the broadcast animation (_animate_broadcast,         *)
(* _animate_broadcast_segment, _end_broadcast), start_animation and        *)
(* stop_animation, and the Tk timer queue (root.after) that drives them.   *)
(*                                                                         *)
(* A node "N<k>" is the number k; 0 stands for None / the empty string.    *)
(* A position on the canvas is not modelled: packet_trail is the length of *)
(* the trail list, and self.pos has exactly the keys of G (add_node and    *)
(* remove_selected_node keep them equal).                                  *)
(***************************************************************************)
EXTENDS Integers, Sequences, FiniteSets, TLC

\* ---------------------------------------------------------------- bounds
MaxNodes == 4
MaxEdges == 3
NumIPs == 2
MaxStarts == 2
MaxAdded == 2
MaxEdits == 4
MaxIpNodes == 2
MaxSources == 1
MaxEditNodes == 4
MaxEditSteps == 8

\* ------------------------------------------------------ program constants
frames_per_edge == 20
TrailUnicast == 15
TrailBroadcast == 10
animation_speed == 80
BroadcastPause == 300

None == 0
NodeIds == 1..MaxNodes
IPs == 1..NumIPs
\* loss_var / 100.0, in percent: never, sometimes, always
LossPercents == {0, 50, 100}
\* random.random() is in [0, 1): the draws, in percent
Draws == {0, 50, 99}
Modes == {"unicast", "broadcast"}
\* the one rate under which a trial can go either way
SomeLoss == {50}
\* the keys of CABLE_TYPES
CableKinds == {"Ethernet", "Fiber Optic", "Wireless"}
\* what the cable_type radio buttons hold when none was clicked
SomeCables == {"Ethernet"}
\* edge_cables has no entry for the pair
NoCable == "none"

VARIABLES
    G_nodes,            \* self.G.nodes
    G_adj,              \* self.G.adj: per node, its neighbours in insertion order
    node_count,         \* self.node_count
    node_ips,           \* self.node_ips (0: no entry)
    edge_cables,        \* self.edge_cables, per ordered pair of nodes
    animating,          \* self.animating
    packet_trail,       \* len(self.packet_trail)
    packet_loss_rate,   \* self.packet_loss_rate, in percent
    current_path,       \* self.current_path (<<>>: not set yet)
    broadcast_visited,  \* self.broadcast_visited
    broadcast_rejected, \* self.broadcast_rejected
    broadcast_accepted, \* self.broadcast_accepted (0: None)
    timers,             \* the callbacks root.after has scheduled and not yet run
    run_count,          \* history: the number of runs started so far
    stopped,            \* history: the runs stop_animation was called on
    event,              \* history: what the last handler reported
    stats,              \* history: the latest run's arguments and step counts
    edits               \* history: the number of editing calls so far

topo == <<G_nodes, G_adj, node_count, node_ips, edge_cables>>
vars == <<G_nodes, G_adj, node_count, node_ips, edge_cables, animating,
          packet_trail,
          packet_loss_rate, current_path, broadcast_visited, broadcast_rejected,
          broadcast_accepted, timers, run_count, stopped, event, stats,
          edits>>

Min(a, b) == IF a < b THEN a ELSE b
Range(s) == {s[i] : i \in 1..Len(s)}
Last(s) == s[Len(s)]

\* ------------------------------------------------------------- the graph

\* networkx Graph.add_edge: each endpoint's adjacency dict gets the other
\* as its newest key; an edge already there keeps its place.
GraphAddEdge(adj, a, b) ==
    IF b \in Range(adj[a]) THEN adj
    ELSE [adj EXCEPT ![a] = Append(@, b), ![b] = Append(@, a)]

Without(s, x) == SelectSeq(s, LAMBDA y : y # x)

\* networkx Graph.remove_edge
GraphRemoveEdge(adj, a, b) ==
    [adj EXCEPT ![a] = Without(@, b), ![b] = Without(@, a)]

\* networkx Graph.remove_node
GraphRemoveNode(adj, n) ==
    [m \in DOMAIN adj |-> IF m = n THEN <<>> ELSE Without(adj[m], n)]

HasEdge(a, b) == a \in G_nodes /\ b \in Range(G_adj[a])

\* ------------------------------------------------------------ the cables

\* self.edge_cables[(a, b)] = cable; self.edge_cables[(b, a)] = cable
CablesWith(cables, a, b, cable) ==
    [cables EXCEPT ![<<a, b>>] = cable, ![<<b, a>>] = cable]

\* A removal that pops the entry of one direction only
CablesWithoutOneWay(cables, a, b) == [cables EXCEPT ![<<a, b>>] = NoCable]

\* self.edge_cables.pop((a, b), None); self.edge_cables.pop((b, a), None)
CablesWithout(cables, a, b) ==
    [cables EXCEPT ![<<a, b>>] = NoCable, ![<<b, a>>] = NoCable]

\* remove_selected_node pops every key that holds the node
CablesWithoutNode(cables, node) ==
    [e \in DOMAIN cables |->
        IF node \in {e[1], e[2]} THEN NoCable ELSE cables[e]]

\* self.edge_cables.get((start_node, end_node), 'Ethernet')
cable_type(cables, start_node, end_node) ==
    IF cables[<<start_node, end_node>>] = NoCable THEN "Ethernet"
    ELSE cables[<<start_node, end_node>>]

\* CABLE_TYPES[cable]['speed'] in tenths: 1.0, 1.5 and 0.8
speed_mult(cable) ==
    CASE cable = "Ethernet" -> 10
      [] cable = "Fiber Optic" -> 15
      [] cable = "Wireless" -> 8

\* A delay that grows with the speed of the cable
adjusted_speed_times(cable) == (animation_speed * speed_mult(cable)) \div 10

\* int(self.animation_speed / speed_mult): the quotient, truncated
adjusted_speed(cable) == (animation_speed * 10) \div speed_mult(cable)

\* A step of the search that does not look at the edges
ExtendAnywhere(P) ==
    UNION {{Append(p, n) : n \in G_nodes \ Range(p)} : p \in P}

\* The paths one hop longer than those of P that visit no node twice
Extend(P) ==
    UNION {{Append(p, n) : n \in Range(G_adj[Last(p)]) \ Range(p)} : p \in P}

\* Breadth-first search from the paths of P: the first level that holds a
\* path ending at dst, or no path once k levels are exhausted
RECURSIVE Search(_, _, _)
Search(P, dst, k) ==
    IF {p \in P : Last(p) = dst} # {} THEN {p \in P : Last(p) = dst}
    ELSE IF k = 0 \/ P = {} THEN {}
    ELSE Search(Extend(P), dst, k - 1)

\* nx.shortest_path(G, source, target): a path with the fewest hops; which of
\* several the library returns is left open. The empty set: NetworkXNoPath.
\* A resolver that takes the two nodes for neighbours when it finds no path
ShortestPathsOrDirect(src, dst) ==
    IF Search({<<src>>}, dst, Cardinality(G_nodes)) = {}
    THEN {<<src, dst>>}
    ELSE Search({<<src>>}, dst, Cardinality(G_nodes))

ShortestPaths(src, dst) == Search({<<src>>}, dst, Cardinality(G_nodes))

\* ------------------------------------------------------------ the timers

\* One call of a step function: the function and its arguments, and for a
\* call that root.after scheduled the delay it was given. visited is the
\* run's own set object, which only the run's one pending callback holds.
Timer(run, fn, path, edge_idx, frame, current_node, target, visited, remaining) ==
    [run |-> run, fn |-> fn, path |-> path, edge_idx |-> edge_idx,
     frame |-> frame, current_node |-> current_node, target |-> target,
     visited |-> visited, remaining |-> remaining, delay |-> 0]

\* self.root.after(ms, lambda: ...): the call t, ms milliseconds from now
After(ms, t) == [t EXCEPT !.delay = ms]

\* A step that shows one frame more of each edge
NextStepOneMore(t) ==
    IF t.frame < frames_per_edge
    THEN [t EXCEPT !.frame = @ + 1]
    ELSE [t EXCEPT !.edge_idx = @ + 1, !.frame = 0]

\* The call a frame schedules (lines 977-982 and 853-862): the next frame
\* of the edge, or after its last frame the first of the next edge
NextStep(t) ==
    IF t.frame < frames_per_edge - 1
    THEN [t EXCEPT !.frame = @ + 1]
    ELSE [t EXCEPT !.edge_idx = @ + 1, !.frame = 0]

\* What a handler reported: log lines and message boxes, as the event they
\* stand for. trial: the handler drew random.random().
Ev(run, kind, node, hop, frame, trial) ==
    [run |-> run, kind |-> kind, node |-> node, hop |-> hop, frame |-> frame,
     trial |-> trial]

NoEvent == Ev(0, "none", 0, 0, 0, FALSE)

\* The simulator's fields as one value, so that a handler's nested calls
\* compose; Sim reads them and SetSim assigns them. edge_cables is the
\* table the steps look the cable of an edge up in; no step writes it.
Sim ==
    [animating |-> animating, packet_trail |-> packet_trail,
     packet_loss_rate |-> packet_loss_rate, visited |-> broadcast_visited, rejected |-> broadcast_rejected,
     accepted |-> broadcast_accepted, timers |-> timers, event |-> event,
     run |-> run_count, stats |-> stats, current_path |-> current_path,
     edge_cables |-> edge_cables]

SetSim(s) ==
    /\ animating' = s.animating
    /\ packet_trail' = s.packet_trail
    /\ packet_loss_rate' = s.packet_loss_rate
    /\ broadcast_visited' = s.visited
    /\ broadcast_rejected' = s.rejected
    /\ broadcast_accepted' = s.accepted
    /\ timers' = s.timers
    /\ event' = s.event
    /\ run_count' = s.run
    /\ stats' = s.stats
    /\ current_path' = s.current_path

\* The latest run counts its steps; a callback of an earlier run does not
Counted(s, t, n) == IF t.run = s.run THEN n ELSE 0

\* The history of a run that starts: its arguments, no step counted yet.
\* attempts: transmissions to a neighbour begun; progress: frames shown;
\* trials: draws of random.random() made.
NewStats(src, dst, mode) ==
    [src |-> src, dst |-> dst, mode |-> mode, attempts |-> 0, progress |-> 0,
     trials |-> 0]

\* A draw that also drops the packet when it equals the rate
shouldDropInclusive(u, rate) == u <= rate

\* random.random() < self.packet_loss_rate
shouldDrop(u, rate) == u < rate

\* A test that forgets frame == 0: a trial at every frame of a later hop
AnyFrameBoundary(edge_idx, frame) == edge_idx > 0

\* A test that forgets edge_idx > 0: a trial before the first hop too
EveryHopBoundary(edge_idx, frame) == frame = 0

\* A test that skips the boundary after the first hop
LaterHopBoundary(edge_idx, frame) == frame = 0 /\ edge_idx > 1

\* The loss check of _animate_smooth is made where a hop after the first
\* begins (line 925)
HopBoundary(edge_idx, frame) == frame = 0 /\ edge_idx > 0

\* ------------------------------------------------------------- unicast

\* _animate_smooth(path, edge_idx, frame), t the callback's arguments and u
\* the draw of random.random() should the step make one.
AnimateSmooth(s, t, u) ==
    IF ~s.animating THEN s
    ELSE IF t.edge_idx >= Len(t.path) - 1 THEN
        [s EXCEPT !.animating = FALSE, !.packet_trail = 0,
                  !.stats.trials = @ + Counted(s, t, 1),
                  !.event = Ev(t.run,
                               IF shouldDrop(u, s.packet_loss_rate)
                               THEN "LostAtDestination" ELSE "Delivered",
                               Last(t.path), t.edge_idx, 0, TRUE)]
    ELSE IF HopBoundary(t.edge_idx, t.frame) /\ shouldDrop(u, s.packet_loss_rate) THEN
        [s EXCEPT !.animating = FALSE, !.packet_trail = 0,
                  !.stats.trials = @ + Counted(s, t, 1),
                  !.event = Ev(t.run, "Lost", t.path[t.edge_idx + 1],
                               t.edge_idx, 0, TRUE)]
    ELSE IF ~({t.path[t.edge_idx + 1], t.path[t.edge_idx + 2]} \subseteq G_nodes) THEN
        \* self.pos[...] raises KeyError: the callback dies, nothing is scheduled
        [s EXCEPT !.stats.trials =
                      @ + Counted(s, t, IF HopBoundary(t.edge_idx, t.frame)
                                        THEN 1 ELSE 0),
                  !.event = Ev(t.run, "Error", 0, t.edge_idx, t.frame,
                               HopBoundary(t.edge_idx, t.frame))]
    ELSE
        [s EXCEPT !.packet_trail = Min(@ + 1, TrailUnicast),
                  !.stats.progress = @ + Counted(s, t, 1),
                  !.stats.trials =
                      @ + Counted(s, t, IF HopBoundary(t.edge_idx, t.frame)
                                        THEN 1 ELSE 0),
                  !.event = Ev(t.run, "HopProgress", t.path[t.edge_idx + 1],
                               t.edge_idx, t.frame,
                               HopBoundary(t.edge_idx, t.frame)),
                  !.timers = @ \cup
                      {After(adjusted_speed(
                                 cable_type(s.edge_cables,
                                            t.path[t.edge_idx + 1],
                                            t.path[t.edge_idx + 2])),
                             NextStep(t))}]

\* start_unicast_animation(src, dst) with the path nx.shortest_path returned
StartUnicast(s, run, path, u) ==
    AnimateSmooth([s EXCEPT !.animating = TRUE, !.packet_trail = 0,
                            !.current_path = path, !.run = run,
                            !.stats = NewStats(path[1], Last(path), "unicast")],
                  Timer(run, "smooth", path, 0, 0, 0, 0, {}, <<>>), u)

\* ------------------------------------------------------------ broadcast

\* An end that reports the run complete and leaves it active
EndBroadcastStillAnimating(s, run) ==
    [s EXCEPT !.packet_trail = 0,
              !.event = Ev(run, "Complete", 0, 0, 0, FALSE)]

\* An end that empties what the run found
EndBroadcastClearing(s, run) ==
    [s EXCEPT !.animating = FALSE, !.packet_trail = 0,
              !.visited = {}, !.rejected = {}, !.accepted = None,
              !.event = Ev(run, "Complete", 0, 0, 0, FALSE)]

\* _end_broadcast(target)
EndBroadcast(s, run) ==
    [s EXCEPT !.animating = FALSE, !.packet_trail = 0,
              !.event = Ev(run, "Complete", 0, 0, 0, FALSE)]

\* A test that compares the addresses without asking that there is one
AcceptsEqual(current_ip, target_ip) == current_ip = target_ip

\* The acceptance test of line 809
Accepts(current_ip, target_ip) ==
    current_ip # None /\ target_ip # None /\ current_ip = target_ip

\* An arrival that keeps the neighbour it goes to next in the list of those
\* still to try
AfterArrivalSameList(t) ==
    IF t.remaining # <<>> THEN
        After(BroadcastPause,
              Timer(t.run, "segment", <<t.path[1], Head(t.remaining)>>, 0, 0,
                    Head(t.remaining), t.target,
                    t.visited \cup {Head(t.remaining)}, t.remaining))
    ELSE
        After(BroadcastPause,
              Timer(t.run, "broadcast", <<>>, 0, 0, t.current_node, t.target,
                    t.visited, <<>>))

\* An arrival that ends the run at a node of the target's address: the
\* call it schedules finds every node visited
AfterArrivalStopAtMatch(t) ==
    IF Accepts(node_ips[t.current_node], node_ips[t.target]) THEN
        After(BroadcastPause,
              Timer(t.run, "broadcast", <<>>, 0, 0, t.current_node, t.target,
                    G_nodes, <<>>))
    ELSE IF t.remaining # <<>> THEN
        After(BroadcastPause,
              Timer(t.run, "segment", <<t.path[1], Head(t.remaining)>>, 0, 0,
                    Head(t.remaining), t.target,
                    t.visited \cup {Head(t.remaining)}, Tail(t.remaining)))
    ELSE
        After(BroadcastPause,
              Timer(t.run, "broadcast", <<>>, 0, 0, t.current_node, t.target,
                    t.visited, <<>>))

\* The callback an arrival schedules (lines 790-799 and 817-826), 300 ms
\* from the arrival: the next of the remaining neighbours from the same
\* previous node, or else _animate_broadcast from the node just handled.
AfterArrival(t) ==
    IF t.remaining # <<>> THEN
        After(BroadcastPause,
              Timer(t.run, "segment", <<t.path[1], Head(t.remaining)>>, 0, 0,
                    Head(t.remaining), t.target,
                    t.visited \cup {Head(t.remaining)}, Tail(t.remaining)))
    ELSE
        After(BroadcastPause,
              Timer(t.run, "broadcast", <<>>, 0, 0, t.current_node, t.target,
                    t.visited, <<>>))

\* _animate_broadcast_segment(path, edge_idx, frame, current_node, target,
\* visited, remaining_neighbors)
AnimateBroadcastSegment(s, t, u) ==
    IF ~s.animating THEN s
    ELSE IF t.edge_idx >= Len(t.path) - 1 THEN
        IF shouldDrop(u, s.packet_loss_rate) THEN
            [s EXCEPT !.rejected = @ \cup {t.current_node},
                      !.timers = @ \cup {AfterArrival(t)},
                      !.stats.attempts =
                          @ + Counted(s, t, IF t.remaining # <<>> THEN 1 ELSE 0),
                      !.stats.trials = @ + Counted(s, t, 1),
                      !.event = Ev(t.run, "NodeLost", t.current_node, 0, 0, TRUE)]
        ELSE IF Accepts(node_ips[t.current_node], node_ips[t.target]) THEN
            [s EXCEPT !.visited = @ \cup {t.current_node},
                      !.accepted = t.current_node,
                      !.timers = @ \cup {AfterArrival(t)},
                      !.stats.attempts =
                          @ + Counted(s, t, IF t.remaining # <<>> THEN 1 ELSE 0),
                      !.stats.trials = @ + Counted(s, t, 1),
                      !.event = Ev(t.run, "NodeAccepted", t.current_node, 0, 0, TRUE)]
        ELSE
            [s EXCEPT !.visited = @ \cup {t.current_node},
                      !.rejected = @ \cup {t.current_node},
                      !.timers = @ \cup {AfterArrival(t)},
                      !.stats.attempts =
                          @ + Counted(s, t, IF t.remaining # <<>> THEN 1 ELSE 0),
                      !.stats.trials = @ + Counted(s, t, 1),
                      !.event = Ev(t.run, "NodeRejected", t.current_node, 0, 0, TRUE)]
    ELSE IF ~({t.path[t.edge_idx + 1], t.path[t.edge_idx + 2]} \subseteq G_nodes) THEN
        \* self.pos[...] raises KeyError: the callback dies, nothing is scheduled
        [s EXCEPT !.event = Ev(t.run, "Error", 0, t.edge_idx, t.frame, FALSE)]
    ELSE
        [s EXCEPT !.packet_trail = Min(@ + 1, TrailBroadcast),
                  !.event = Ev(t.run, "Progress", t.current_node, t.edge_idx,
                               t.frame, FALSE),
                  !.timers = @ \cup {After(animation_speed, NextStep(t))}]

\* The neighbours of current, the visited ones too
AllNeighbors(current, visited) == G_adj[current]

\* neighbors = [n for n in self.G.neighbors(current) if n not in visited]
UnvisitedNeighbors(current, visited) ==
    SelectSeq(G_adj[current], LAMBDA n : n \notin visited)

\* _animate_broadcast(current, target, visited)
AnimateBroadcast(s, t, u) ==
    IF ~s.animating THEN s
    ELSE IF t.current_node \notin G_nodes THEN
        \* G.neighbors raises NetworkXError outside the try: the callback dies
        [s EXCEPT !.event = Ev(t.run, "Error", t.current_node, 0, 0, FALSE)]
    ELSE LET neighbors == UnvisitedNeighbors(t.current_node, t.visited)
         IN  IF neighbors = <<>> THEN EndBroadcast(s, t.run)
             ELSE AnimateBroadcastSegment(
                      [s EXCEPT !.stats.attempts = @ + Counted(s, t, 1)],
                      Timer(t.run, "segment", <<t.current_node, Head(neighbors)>>,
                            0, 0, Head(neighbors), t.target,
                            t.visited \cup {Head(neighbors)}, Tail(neighbors)),
                      u)

\* A start that does not put the source in the visited set
StartBroadcastUnseeded(s, run, src, dst, u) ==
    AnimateBroadcast([s EXCEPT !.animating = TRUE, !.packet_trail = 0,
                               !.visited = {}, !.rejected = {},
                               !.accepted = None, !.run = run,
                               !.stats = NewStats(src, dst, "broadcast")],
                     Timer(run, "broadcast", <<>>, 0, 0, src, dst, {}, <<>>),
                     u)

\* start_broadcast_animation(src, dst), past its check for other nodes
StartBroadcast(s, run, src, dst, u) ==
    AnimateBroadcast([s EXCEPT !.animating = TRUE, !.packet_trail = 0,
                               !.visited = {}, !.rejected = {},
                               !.accepted = None, !.run = run,
                               !.stats = NewStats(src, dst, "broadcast")],
                     Timer(run, "broadcast", <<>>, 0, 0, src, dst, {src}, <<>>),
                     u)

\* ------------------------------------------------------------- handlers

Report(kind) == Ev(0, kind, 0, 0, 0, FALSE)

\* A start that forgets the path before it tests animating
StartWhileAnimatingResetting ==
    /\ animating
    /\ event' = Report("AlreadyRunning")
    /\ current_path' = <<>>
    /\ UNCHANGED <<topo, edits, stopped, animating, packet_trail, packet_loss_rate,
                   broadcast_visited, broadcast_rejected, broadcast_accepted,
                   timers, run_count, stats>>

\* start_animation while a run is active (lines 676-678): the message box
StartWhileAnimating ==
    /\ animating
    /\ event' = Report("AlreadyRunning")
    /\ UNCHANGED <<topo, edits, stopped, animating, packet_trail, packet_loss_rate,
                   current_path,
                   broadcast_visited, broadcast_rejected, broadcast_accepted,
                   timers, run_count, stats>>

\* A start that stores the loss rate before it validates the two nodes
StartAnimationRateFirst(src, dst, loss, mode, limit) ==
    /\ ~animating
    /\ UNCHANGED <<topo, edits, stopped>>
    /\ LET rated == [Sim EXCEPT !.packet_loss_rate = loss]
           paths == IF mode = "unicast" /\ {src, dst} \subseteq G_nodes
                    THEN ShortestPaths(src, dst) ELSE {}
       IN  IF src = None \/ dst = None THEN
               SetSim([rated EXCEPT !.event = Report("ChooseNodes")])
           ELSE IF src \notin G_nodes \/ dst \notin G_nodes THEN
               SetSim([rated EXCEPT !.event = Report("NotInGraph")])
           ELSE IF mode = "broadcast" /\ G_nodes \ {src} = {} THEN
               SetSim([rated EXCEPT !.event = Report("NoOtherNodes")])
           ELSE IF mode = "unicast" /\ paths = {} THEN
               SetSim([rated EXCEPT !.event = Report("PathNotFound")])
           ELSE
               /\ run_count < limit
               /\ \E u \in Draws :
                     IF mode = "broadcast"
                     THEN SetSim(StartBroadcast(rated, run_count + 1, src,
                                                dst, u))
                     ELSE \E path \in paths :
                             SetSim(StartUnicast(rated, run_count + 1,
                                                 path, u))

\* A start that marks the run active before it looks for other nodes
StartAnimationActiveFirst(src, dst, loss, mode, limit) ==
    /\ ~animating
    /\ UNCHANGED <<topo, edits, stopped>>
    /\ IF src = None \/ dst = None THEN
           /\ event' = Report("ChooseNodes")
           /\ UNCHANGED <<animating, packet_trail, packet_loss_rate,
                          current_path, broadcast_visited, broadcast_rejected,
                          broadcast_accepted, timers, run_count, stats>>
       ELSE IF src \notin G_nodes \/ dst \notin G_nodes THEN
           /\ event' = Report("NotInGraph")
           /\ UNCHANGED <<animating, packet_trail, packet_loss_rate,
                          current_path, broadcast_visited, broadcast_rejected,
                          broadcast_accepted, timers, run_count, stats>>
       ELSE LET rated == [Sim EXCEPT !.packet_loss_rate = loss]
                paths == IF mode = "unicast" THEN ShortestPaths(src, dst)
                         ELSE {}
            IN  IF mode = "broadcast" /\ G_nodes \ {src} = {} THEN
                    SetSim([rated EXCEPT !.animating = TRUE,
                                         !.event = Report("NoOtherNodes")])
                ELSE IF mode = "unicast" /\ paths = {} THEN
                    SetSim([rated EXCEPT !.event = Report("PathNotFound")])
                ELSE
                    /\ run_count < limit
                    /\ \E u \in Draws :
                          IF mode = "broadcast"
                          THEN SetSim(StartBroadcast(rated, run_count + 1, src,
                                                     dst, u))
                          ELSE \E path \in paths :
                                  SetSim(StartUnicast(rated, run_count + 1,
                                                      path, u))

\* start_animation past that check (lines 680-700), with what its widgets
\* hold: src_var, dst_var, loss_var and sim_mode; limit bounds the number of
\* runs started.
StartAnimation(src, dst, loss, mode, limit) ==
    /\ ~animating
    /\ UNCHANGED <<topo, edits, stopped>>
    /\ IF src = None \/ dst = None THEN
           /\ event' = Report("ChooseNodes")
           /\ UNCHANGED <<animating, packet_trail, packet_loss_rate,
                          current_path, broadcast_visited, broadcast_rejected,
                          broadcast_accepted, timers, run_count, stats>>
       ELSE IF src \notin G_nodes \/ dst \notin G_nodes THEN
           /\ event' = Report("NotInGraph")
           /\ UNCHANGED <<animating, packet_trail, packet_loss_rate,
                          current_path, broadcast_visited, broadcast_rejected,
                          broadcast_accepted, timers, run_count, stats>>
       ELSE LET rated == [Sim EXCEPT !.packet_loss_rate = loss]
                paths == IF mode = "unicast" THEN ShortestPaths(src, dst)
                         ELSE {}
            IN  IF mode = "broadcast" /\ G_nodes \ {src} = {} THEN
                    SetSim([rated EXCEPT !.event = Report("NoOtherNodes")])
                ELSE IF mode = "unicast" /\ paths = {} THEN
                    SetSim([rated EXCEPT !.event = Report("PathNotFound")])
                ELSE
                    /\ run_count < limit
                    /\ \E u \in Draws :
                          IF mode = "broadcast"
                          THEN SetSim(StartBroadcast(rated, run_count + 1, src,
                                                     dst, u))
                          ELSE \E path \in paths :
                                  SetSim(StartUnicast(rated, run_count + 1,
                                                      path, u))

\* A stop that also resets the fields that a start resets
StopAnimationResetting ==
    /\ animating' = FALSE
    /\ packet_trail' = 0
    /\ current_path' = <<>>
    /\ broadcast_visited' = {}
    /\ broadcast_rejected' = {}
    /\ broadcast_accepted' = None
    /\ event' = Report("Stopped")
    /\ stopped' = IF animating THEN stopped \cup {run_count} ELSE stopped
    /\ UNCHANGED <<topo, edits, packet_loss_rate, timers, run_count, stats>>

\* A stop that discards the trail and leaves the run active
StopAnimationTrailOnly ==
    /\ packet_trail' = 0
    /\ event' = Report("Stopped")
    /\ stopped' = IF animating THEN stopped \cup {run_count} ELSE stopped
    /\ UNCHANGED <<topo, edits, animating, packet_loss_rate, current_path,
                   broadcast_visited, broadcast_rejected, broadcast_accepted,
                   timers, run_count, stats>>

\* stop_animation
StopAnimation ==
    /\ animating' = FALSE
    /\ packet_trail' = 0
    /\ event' = Report("Stopped")
    /\ stopped' = IF animating THEN stopped \cup {run_count} ELSE stopped
    /\ UNCHANGED <<topo, edits, packet_loss_rate, current_path,
                   broadcast_visited, broadcast_rejected, broadcast_accepted,
                   timers, run_count, stats>>

\* Tk runs a scheduled callback: the callback leaves the queue and its
\* function runs; a function that returns at once reports nothing.
Fire(t, u) ==
    LET s == [Sim EXCEPT !.timers = @ \ {t}, !.event = NoEvent]
    IN  CASE t.fn = "smooth" -> AnimateSmooth(s, t, u)
          [] t.fn = "segment" -> AnimateBroadcastSegment(s, t, u)
          [] t.fn = "broadcast" -> AnimateBroadcast(s, t, u)

TimerFires(t) ==
    /\ t \in timers
    /\ \E u \in Draws : SetSim(Fire(t, u))
    /\ UNCHANGED <<topo, edits, stopped>>

SmoothTimer == \E t \in timers : t.fn = "smooth" /\ TimerFires(t)
SegmentTimer == \E t \in timers : t.fn = "segment" /\ TimerFires(t)
BroadcastTimer == \E t \in timers : t.fn = "broadcast" /\ TimerFires(t)

\* --------------------------------------------------- topologies to run on

\* The simulator fields of a freshly constructed application
FreshSim ==
    /\ animating = FALSE
    /\ packet_trail = 0
    /\ packet_loss_rate = 0
    /\ broadcast_visited = {}
    /\ broadcast_rejected = {}
    /\ broadcast_accepted = None
    /\ timers = {}
    /\ run_count = 0
    /\ stopped = {}
    /\ event = NoEvent
    /\ edits = 0
    /\ stats = NewStats(None, None, "none")
    /\ current_path = <<>>

EmptyAdj == [n \in NodeIds |-> <<>>]

Edges == {e \in NodeIds \X NodeIds : e[1] < e[2]}

\* The orders in which add_edge can have been called on up to MaxEdges
\* different pairs of nodes
EdgeSeqs ==
    UNION {{es \in [1..k -> Edges] :
               \A i, j \in 1..k : i # j => es[i] # es[j]} : k \in 0..MaxEdges}

RECURSIVE AdjAfter(_)
AdjAfter(es) ==
    IF es = <<>> THEN EmptyAdj
    ELSE GraphAddEdge(AdjAfter(SubSeq(es, 1, Len(es) - 1)),
                      Last(es)[1], Last(es)[2])

\* The node_ips tables that at most k calls of set_ip_address leave
IpTables(k) ==
    {f \in [NodeIds -> {None} \cup IPs] :
        Cardinality({n \in NodeIds : f[n] # None}) <= k}

\* An empty edge_cables
NoCables == [e \in NodeIds \X NodeIds |-> NoCable]

\* edge_cables after add_edge for each pair of es in turn, the radio
\* buttons at kind[e] for the pair e
RECURSIVE CablesAfter(_, _)
CablesAfter(es, kind) ==
    IF es = <<>> THEN NoCables
    ELSE CablesWith(CablesAfter(SubSeq(es, 1, Len(es) - 1), kind),
                    Last(es)[1], Last(es)[2], kind[Last(es)])

\* The application after the editing done before a run: MaxNodes calls of
\* add_node, add_edge for each pair of es in turn with a cable of kinds,
\* and set_ip_address on at most k nodes.
InitBuilt(k, kinds) ==
    /\ FreshSim
    /\ node_count = MaxNodes
    /\ G_nodes = NodeIds
    /\ \E es \in EdgeSeqs, kind \in [Edges -> kinds] :
          /\ G_adj = AdjAfter(es)
          /\ edge_cables = CablesAfter(es, kind)
    /\ node_ips \in IpTables(k)

\* ------------------------------------------------------ topology editing

\* What the editing handlers leave alone: every field of the simulator.
\* Their own log lines and message boxes are not simulator events.
simvars == <<animating, packet_trail, packet_loss_rate, current_path,
             broadcast_visited,
             broadcast_rejected, broadcast_accepted, timers, run_count,
             stopped, event, stats>>

\* add_node; limit bounds the number of nodes ever added
AddNode(limit) ==
    /\ node_count < limit
    /\ node_count' = node_count + 1
    /\ G_nodes' = G_nodes \cup {node_count + 1}
    /\ UNCHANGED <<G_adj, node_ips, edge_cables, simvars>>

\* remove_selected_node, node what self.selected_node holds
RemoveSelectedNode(node) ==
    /\ IF node # None /\ node \in G_nodes THEN
           /\ G_nodes' = G_nodes \ {node}
           /\ G_adj' = GraphRemoveNode(G_adj, node)
           /\ node_ips' = [node_ips EXCEPT ![node] = None]
           /\ edge_cables' = CablesWithoutNode(edge_cables, node)
       ELSE
           UNCHANGED <<G_nodes, G_adj, node_ips, edge_cables>>
    /\ UNCHANGED <<node_count, simvars>>

\* add_edge, a and b what the two comboboxes hold and cable what the radio
\* buttons hold
AddEdge(a, b, cable) ==
    /\ IF a = None \/ b = None \/ a = b THEN UNCHANGED <<G_adj, edge_cables>>
       ELSE /\ G_adj' = GraphAddEdge(G_adj, a, b)
            /\ edge_cables' = CablesWith(edge_cables, a, b, cable)
    /\ UNCHANGED <<G_nodes, node_count, node_ips, simvars>>

\* remove_edge, a and b what the two comboboxes hold
RemoveEdge(a, b) ==
    /\ IF a # None /\ b # None /\ HasEdge(a, b)
       THEN /\ G_adj' = GraphRemoveEdge(G_adj, a, b)
            /\ edge_cables' = CablesWithout(edge_cables, a, b)
       ELSE UNCHANGED <<G_adj, edge_cables>>
    /\ UNCHANGED <<G_nodes, node_count, node_ips, simvars>>

\* set_ip_address, node what the combobox holds and ip the entry: an
\* address validate_ip accepts, or None for one it does not
SetIpAddress(node, ip) ==
    /\ IF node = None \/ ip = None THEN UNCHANGED node_ips
       ELSE node_ips' = [node_ips EXCEPT ![node] = ip]
    /\ UNCHANGED <<G_nodes, G_adj, node_count, edge_cables, simvars>>

\* What a readonly combobox can hold: a node of the graph or nothing
Choices == G_nodes \cup {None}

\* What src_var and dst_var can hold: a label given out so far, or nothing.
\* update_comboboxes empties a combobox whose node has left the graph;
\* load_topology replaces the graph and, when it fails half-way, returns
\* without calling it (lines 1063-1102), so a label can outlive its node.
Held == (1..node_count) \cup {None}

\* One call of an editing handler, counted: at most limit calls, at most
\* nodes nodes ever added, the cable one of kinds
EditWith(kinds, nodes, limit) ==
    /\ edits < limit
    /\ edits' = edits + 1
    /\ \/ AddNode(nodes)
       \/ \E node \in Choices : RemoveSelectedNode(node)
       \/ \E a, b \in Choices, cable \in kinds : AddEdge(a, b, cable)
       \/ \E a, b \in Choices : RemoveEdge(a, b)
       \/ \E node \in Choices, ip \in IPs \cup {None} : SetIpAddress(node, ip)

Edit == EditWith(SomeCables, MaxAdded, MaxEdits)

\* -------------------------------------------- the application as a whole

Init ==
    /\ FreshSim
    /\ node_count = 0
    /\ G_nodes = {}
    /\ G_adj = EmptyAdj
    /\ node_ips = [n \in NodeIds |-> None]
    /\ edge_cables = NoCables

Next ==
    \/ Edit
    \/ StartWhileAnimating
    \/ \E src, dst \in Held, loss \in SomeLoss, mode \in Modes :
          StartAnimation(src, dst, loss, mode, MaxStarts)
    \/ StopAnimation
    \/ SmoothTimer
    \/ SegmentTimer
    \/ BroadcastTimer

Spec == Init /\ [][Next]_vars

\* ---- the application with a single run: every handler, one start
OneRunNext ==
    \/ Edit
    \/ StartWhileAnimating
    \/ \E src, dst \in Held, loss \in SomeLoss, mode \in Modes :
          StartAnimation(src, dst, loss, mode, 1)
    \/ StopAnimation
    \/ SmoothTimer
    \/ SegmentTimer
    \/ BroadcastTimer

SpecOneRun == Init /\ [][OneRunNext]_vars

\* ---- one broadcast run on a topology without addresses, neither stopped
\* nor edited
FloodNext ==
    \/ \E src, dst \in NodeIds, loss \in LossPercents :
          StartAnimation(src, dst, loss, "broadcast", 1)
    \/ SegmentTimer
    \/ BroadcastTimer

SpecFlood == InitBuilt(0, SomeCables) /\ [][FloodNext]_vars

\* Tk's main loop runs every callback that is due
FairSpecFlood ==
    SpecFlood /\ WF_vars(SegmentTimer) /\ WF_vars(BroadcastTimer)

\* ---- one broadcast run on a topology with addresses, neither stopped nor
\* edited. Nodes differ only in the order of the add_edge calls, which Init
\* runs through, so the source is one of the first MaxSources nodes.
BroadcastNext ==
    \/ \E src \in 1..MaxSources, dst \in NodeIds, loss \in LossPercents :
          StartAnimation(src, dst, loss, "broadcast", 1)
    \/ SegmentTimer
    \/ BroadcastTimer

SpecBroadcast == InitBuilt(MaxIpNodes, SomeCables) /\ [][BroadcastNext]_vars

\* ---- one unicast run, neither stopped nor edited
UnicastNext ==
    \/ \E src, dst \in NodeIds, loss \in LossPercents :
          StartAnimation(src, dst, loss, "unicast", 1)
    \/ SmoothTimer

SpecUnicast == InitBuilt(0, SomeCables) /\ [][UnicastNext]_vars

FairSpecUnicast == SpecUnicast /\ WF_vars(SmoothTimer)

\* ---- one run of either mode, neither stopped nor edited
RunsNext ==
    \/ \E src, dst \in NodeIds, loss \in LossPercents, mode \in Modes :
          StartAnimation(src, dst, loss, mode, 1)
    \/ SmoothTimer
    \/ SegmentTimer
    \/ BroadcastTimer

SpecRuns == InitBuilt(0, SomeCables) /\ [][RunsNext]_vars

FairSpecRuns ==
    /\ SpecRuns
    /\ WF_vars(SmoothTimer) /\ WF_vars(SegmentTimer) /\ WF_vars(BroadcastTimer)

\* ---- one unicast run on a topology with cables of every kind, neither
\* stopped nor edited
CablesNext ==
    \/ \E src, dst \in NodeIds, loss \in SomeLoss :
          StartAnimation(src, dst, loss, "unicast", 1)
    \/ SmoothTimer

SpecCables == InitBuilt(0, CableKinds) /\ [][CablesNext]_vars

\* ---- the editing handlers alone, from the empty application
EditingNext == EditWith(CableKinds, MaxEditNodes, MaxEditSteps)

SpecEdit == Init /\ [][EditingNext]_vars

\* =============================================================== claims

\* The nodes joined to the nodes of S by edges of the graph
RECURSIVE Reach(_)
Reach(S) ==
    LET T == S \cup UNION {Range(G_adj[n]) : n \in S}
    IN  IF T = S THEN S ELSE Reach(T)

\* The nodes of the latest run's source's component, but the source
Reachable == Reach({stats.src}) \ {stats.src}

Completed == event.kind = "Complete"

\* C1: with packet_loss_rate = 0.0, a broadcast that is not cancelled, on a
\* topology that is not changed, ends with broadcast_visited equal to the
\* nodes of the source's connected component other than the source.
C1_VisitsComponent ==
    (Completed /\ packet_loss_rate = 0) => broadcast_visited = Reachable

\* C2: for every loss rate and every outcome of the loss trials, when a
\* broadcast that was not cancelled reaches _end_broadcast, every node
\* reachable from the source, but the source, is in broadcast_visited or in
\* broadcast_rejected.
C2_NoneSkipped ==
    Completed => Reachable \subseteq (broadcast_visited \cup broadcast_rejected)

\* C3: every broadcast run ends when Tk fires the callbacks that are due:
\* a run that is animating leads to _end_broadcast, and at no time has the
\* run made more transmission attempts than the graph has nodes other than
\* the source.
C3_Terminates ==
    /\ [](stats.attempts <= Cardinality(G_nodes) - 1)
    /\ (animating ~> (Completed /\ ~animating))

\* A run that ended after an attempt on every other node
C3_Witness ==
    Completed /\ stats.attempts = Cardinality(G_nodes) - 1 /\ timers = {}

\* The unicast events that end a run with the packet lost
LostKinds == {"Lost", "LostAtDestination"}

\* A step of the animation follows the step before it: the next frame of
\* the same hop, or the first frame of the next hop after the last frame of
\* this one; the first step of a run is frame 0 of hop 0.
InOrder ==
    event'.kind = "HopProgress" =>
        IF event.kind = "HopProgress"
        THEN \/ event'.hop = event.hop /\ event'.frame = event.frame + 1
             \/ /\ event.frame = frames_per_edge - 1
                /\ event'.hop = event.hop + 1 /\ event'.frame = 0
        ELSE event'.hop = 0 /\ event'.frame = 0

\* C4: with packet_loss_rate = 0.0 a unicast run that is not cancelled ends
\* with the packet delivered at path[-1], after every frame of every hop of
\* the path in order, and never reports the packet lost.
C4_Delivers ==
    /\ [](packet_loss_rate = 0 => event.kind \notin LostKinds)
    /\ []((packet_loss_rate = 0 /\ event.kind = "Delivered") =>
            /\ event.node = Last(current_path)
            /\ stats.progress = frames_per_edge * (Len(current_path) - 1))
    /\ [][packet_loss_rate' = 0 => InOrder]_vars
    /\ ((animating /\ packet_loss_rate = 0) ~>
            (event.kind = "Delivered" /\ ~animating))

\* A packet delivered over a path of three hops, every frame of them shown
C4_Witness ==
    /\ packet_loss_rate = 0 /\ event.kind = "Delivered"
    /\ Len(current_path) = 4 /\ stats.progress = 3 * frames_per_edge

\* C5: with packet_loss_rate = 1.0 a unicast run over a path of one hop or
\* more ends with the packet lost at the first boundary checked: at path[1]
\* as hop 1 when the path has two hops or more, at the destination when it
\* has one; the packet is never delivered and no step of a hop after the
\* first is animated.
C5_LostAtFirstCheck ==
    /\ []((packet_loss_rate = 100 /\ Len(current_path) >= 2) =>
            /\ event.kind # "Delivered"
            /\ event.kind = "HopProgress" => event.hop = 0
            /\ event.kind = "Lost" =>
                  /\ Len(current_path) >= 3
                  /\ event.node = current_path[2] /\ event.hop = 1
                  /\ stats.progress = frames_per_edge
            /\ event.kind = "LostAtDestination" =>
                  /\ Len(current_path) = 2
                  /\ event.node = current_path[2]
                  /\ stats.progress = frames_per_edge)
    /\ ((animating /\ packet_loss_rate = 100 /\ Len(current_path) >= 2) ~>
            (event.kind \in LostKinds /\ ~animating))

\* A packet lost at path[1] of a path of three hops
C5_Witness ==
    /\ packet_loss_rate = 100 /\ event.kind = "Lost"
    /\ Len(current_path) = 4 /\ event.node = current_path[2]

\* C6: in a broadcast run broadcast_accepted is set at most once: once it
\* holds a node, no later arrival of the run changes it.
C6_AcceptedOnce ==
    [][(broadcast_accepted # None /\ run_count' = run_count) =>
            broadcast_accepted' = broadcast_accepted]_vars

\* C7: whenever broadcast_accepted is set to a node, the node is in
\* broadcast_visited and its address is not empty and equals the address of
\* the target at that moment; no node is accepted while the target has no
\* address.
C7_AcceptedMatches ==
    /\ [][event'.kind = "NodeAccepted" =>
            /\ broadcast_accepted' = event'.node
            /\ broadcast_accepted' \in broadcast_visited'
            /\ node_ips'[broadcast_accepted'] # None
            /\ node_ips'[broadcast_accepted'] = node_ips'[stats'.dst]]_vars
    /\ [][broadcast_accepted' \notin {None, broadcast_accepted} =>
            event'.kind = "NodeAccepted"]_vars
    /\ []((stats.mode = "broadcast" /\ node_ips[stats.dst] = None) =>
            broadcast_accepted = None)

\* A node just accepted
C7_Witness ==
    event.kind = "NodeAccepted" /\ broadcast_accepted = event.node

\* C8: with packet_loss_rate = 0.0 a broadcast whose target has an address
\* and can be reached from the source ends with broadcast_accepted a node of
\* the target's address, every reachable node visited and every visited
\* node of another address rejected.
C8_TargetFound ==
    (/\ Completed /\ packet_loss_rate = 0
     /\ node_ips[stats.dst] # None /\ stats.dst \in Reachable) =>
        /\ broadcast_accepted # None
        /\ node_ips[broadcast_accepted] = node_ips[stats.dst]
        /\ Reachable \subseteq broadcast_visited
        /\ \A n \in broadcast_visited :
              node_ips[n] # node_ips[stats.dst] => n \in broadcast_rejected

\* C9: a run that stop_animation stopped reports nothing afterwards,
\* whatever is called after the stop.
C9_SilentAfterStop == event.run \notin stopped

\* The events of the simulator's streams; the handlers' own message boxes
\* and log lines are not among them
StreamKinds ==
    {"HopProgress", "Delivered", "Lost", "LostAtDestination", "PathNotFound",
     "Progress", "NodeLost", "NodeAccepted", "NodeRejected", "Complete"}

\* C10: stop_animation called while no run is active, after a run ended or
\* after an earlier stop, changes no field of the simulator and puts no
\* event on a run's stream; what it writes is its own log line.
C10_StopIsNoOp ==
    [][(~animating /\ StopAnimation) =>
            /\ UNCHANGED <<animating, packet_trail, broadcast_visited,
                           broadcast_rejected, broadcast_accepted,
                           packet_loss_rate, current_path, timers,
                           run_count, stats, stopped>>
            /\ event'.kind \notin StreamKinds]_vars

\* stop_animation was called after a broadcast had ended by itself, and
\* what the broadcast found is still there
C10_Witness ==
    /\ event.kind = "Stopped" /\ ~animating
    /\ run_count > 0 /\ run_count \notin stopped
    /\ broadcast_visited # {}

\* C11: start_animation called while a run is active starts and queues no
\* run and leaves the run as it is: its path and position (the pending
\* callbacks), the loss rate, visited, rejected, accepted and animating.
C11_StartRejectedWhileRunning ==
    /\ [][event'.kind = "AlreadyRunning" =>
            /\ animating
            /\ UNCHANGED <<animating, current_path, timers, packet_loss_rate,
                           packet_trail, broadcast_visited, broadcast_rejected,
                           broadcast_accepted, run_count, stats>>]_vars
    /\ [][animating => run_count' = run_count]_vars

\* start_animation was just refused, with a unicast run on its way
C11_Witness ==
    /\ event.kind = "AlreadyRunning" /\ animating
    /\ current_path # <<>> /\ timers # {}

\* C12: the state of a run (animating, broadcast_visited,
\* broadcast_rejected, broadcast_accepted) is changed only by the run's own
\* steps and by stop_animation: a step of an earlier run, one whose run is
\* not the latest started, leaves these four fields alone.
C12_OnlyOwnSteps ==
    [][(event'.run # 0 /\ event'.run # run_count') =>
            UNCHANGED <<animating, broadcast_visited, broadcast_rejected,
                        broadcast_accepted>>]_vars

\* C13: a unicast start between two nodes of the graph that lie in
\* different components is reported as the no-path error and as nothing
\* else: no run becomes active, no loss trial is drawn, no callback is
\* scheduled and no step or outcome of a run is reported.
C13_NoPathReported ==
    /\ [][\A src, dst \in G_nodes, loss \in LossPercents :
            (/\ ~animating /\ dst \notin Reach({src})
             /\ StartAnimation(src, dst, loss, "unicast", MaxStarts)) =>
                /\ event' = Report("PathNotFound")
                /\ UNCHANGED <<animating, timers, run_count, stats,
                               current_path, packet_trail>>]_vars
    /\ [](event.kind = "PathNotFound" => ~animating /\ ~event.trial)

\* The no-path error was just reported, for a start on a graph with edges
C13_Witness ==
    /\ event.kind = "PathNotFound" /\ ~animating /\ run_count = 0
    /\ \E n \in G_nodes : G_adj[n] # <<>>

\* C14: start_animation with a source or a destination that is empty or
\* is no node of the graph is refused at once, in both modes: animating
\* stays false and packet_loss_rate and the state of the last run are as
\* they were.
C14_InvalidNodesRejected ==
    [][\A src, dst \in Held, loss \in SomeLoss, mode \in Modes :
          (/\ ~animating
           /\ ~({src, dst} \subseteq G_nodes)
           /\ StartAnimation(src, dst, loss, mode, 1)) =>
              /\ event'.kind \in {"ChooseNodes", "NotInGraph"}
              /\ ~animating'
              /\ UNCHANGED <<packet_loss_rate, packet_trail, current_path,
                             broadcast_visited, broadcast_rejected,
                             broadcast_accepted, timers, run_count,
                             stats>>]_vars

\* A start was just refused for a label that is no node of the graph, after
\* an earlier run
C14_Witness ==
    event.kind = "NotInGraph" /\ ~animating /\ run_count > 0

\* The number of hops from the nodes of S, d hops from the start, to dst,
\* counted level by level; -1 when dst cannot be reached
RECURSIVE Distance(_, _, _)
Distance(S, dst, d) ==
    LET T == S \cup UNION {Range(G_adj[n]) : n \in S}
    IN  IF dst \in S THEN d
        ELSE IF T = S THEN -1
        ELSE Distance(T, dst, d + 1)

\* C15: for every topology and every pair of connected nodes a unicast run
\* starts, and the path it follows starts at the source, ends at the
\* destination, joins consecutive nodes by edges of the graph and has as
\* many hops as the breadth-first distance between the two nodes.
C15_ShortestPath ==
    /\ [](stats.mode = "unicast" =>
            /\ current_path[1] = stats.src
            /\ current_path[Len(current_path)] = stats.dst
            /\ \A i \in 1..(Len(current_path) - 1) :
                  HasEdge(current_path[i], current_path[i + 1])
            /\ Len(current_path) - 1 = Distance({stats.src}, stats.dst, 0))
    /\ [][\A src, dst \in G_nodes, loss \in LossPercents :
            (/\ run_count = 0 /\ dst \in Reach({src})
             /\ StartAnimation(src, dst, loss, "unicast", 1)) =>
                /\ run_count' = 1
                /\ stats'.src = src /\ stats'.dst = dst]_vars

\* A run over the edge between two nodes that a path of two hops joins too
C15_Witness ==
    /\ stats.mode = "unicast" /\ Len(current_path) = 2
    /\ \E n \in G_nodes \ {stats.src, stats.dst} :
          HasEdge(stats.src, n) /\ HasEdge(n, stats.dst)

\* C16: while a run is active the topology is read-only: no step taken
\* while animating changes the node set, the edges or the addresses.
C16_ReadOnlyWhileRunning ==
    [][animating => UNCHANGED <<G_nodes, G_adj, node_ips>>]_vars

\* C17: a unicast start with the source for destination is refused before
\* the first step: no run of the two equal nodes is on record, no loss
\* trial is drawn for it and it is neither delivered nor lost.
C17_SelfStartRejected ==
    (stats.mode = "unicast" /\ stats.src = stats.dst) =>
        /\ stats.trials = 0
        /\ event.kind \notin {"Delivered", "Lost", "LostAtDestination"}

\* C18: in a unicast run a loss trial is drawn exactly once before each
\* hop i > 0, at frame 0 of the hop, and never before hop 0. A trial that
\* drops ends the run: lost at path[i] as hop i of len(path) - 1, animating
\* false, nothing scheduled, and no frame of hop i or of a later hop shown.
C18_TrialBeforeEachLaterHop ==
    /\ []((stats.mode = "unicast" /\ event.kind = "HopProgress") =>
            /\ event.trial <=> (event.frame = 0 /\ event.hop > 0)
            /\ stats.trials = event.hop
            /\ stats.progress = frames_per_edge * event.hop + event.frame + 1)
    /\ []((stats.mode = "unicast" /\ event.kind = "Lost") =>
            /\ event.trial
            /\ event.hop \in 1..(Len(current_path) - 2)
            /\ event.node = current_path[event.hop + 1]
            /\ stats.trials = event.hop
            /\ stats.progress = frames_per_edge * event.hop
            /\ ~animating /\ timers = {})

\* A packet lost before the third hop, at the second trial of its run
C18_Witness ==
    /\ event.kind = "Lost" /\ event.hop = 2 /\ stats.trials = 2
    /\ packet_loss_rate = 50

\* C19: after the last hop of a unicast run has been shown, one more loss
\* trial is drawn: dropped, the run ends lost at the destination path[-1],
\* otherwise delivered; a run that ends so over a path of L >= 1 hops has
\* drawn L trials, L - 1 before the later hops and this one.
C19_OneTrialAtDestination ==
    []((/\ stats.mode = "unicast" /\ Len(current_path) >= 2
        /\ event.kind \in {"Delivered", "LostAtDestination"}) =>
            /\ event.trial
            /\ event.node = current_path[Len(current_path)]
            /\ stats.progress = frames_per_edge * (Len(current_path) - 1)
            /\ stats.trials = Len(current_path) - 1
            /\ ~animating /\ timers = {})

\* A packet that passed two trials on its way and lost the third, at the
\* destination
C19_Witness ==
    /\ event.kind = "LostAtDestination" /\ Len(current_path) = 4
    /\ stats.trials = 3 /\ packet_loss_rate = 50

\* C20: in a broadcast run neighbour expansion starts only from the source
\* or from a node that was reached: the node a pending call of
\* _animate_broadcast is to expand is the source or is in
\* broadcast_visited, never a node whose transit was lost.
C20_ExpandsFromReached ==
    \A t \in timers :
        (t.fn = "broadcast" /\ t.run = run_count) =>
            t.current_node \in {stats.src} \cup broadcast_visited

\* C21: in a broadcast run every node that was reached and whose address
\* does not match is rejected and becomes a frontier node: when the run
\* completes, each of its neighbours has been the target of a transmission
\* attempt, so each is the source, visited or rejected.
C21_RejectedBecomeFrontier ==
    Completed =>
        \A n \in broadcast_visited :
            ~Accepts(node_ips[n], node_ips[stats.dst]) =>
                /\ n \in broadcast_rejected
                /\ Range(G_adj[n]) \subseteq
                       {stats.src} \cup broadcast_visited \cup broadcast_rejected

\* C22: in a broadcast run a neighbour whose transit is lost is rejected
\* and not marked visited while the run goes on, and it is attempted again
\* when a different frontier node finds it: for the frontier node that a
\* pending call of _animate_broadcast is to expand, itself a node that was
\* reached, a lost neighbour still counts as unvisited.
C22_LostRetriedFromOtherFrontier ==
    /\ event.kind = "NodeLost" =>
          /\ event.node \in broadcast_rejected \ broadcast_visited
          /\ animating /\ timers # {}
    /\ \A t \in timers :
          (/\ t.fn = "broadcast" /\ t.run = run_count
           /\ t.current_node \in broadcast_visited) =>
              \A n \in Range(G_adj[t.current_node]) :
                  n \in broadcast_rejected \ broadcast_visited =>
                      n \notin t.visited

\* The events of a transit that ended at its node
ArrivalKinds == {"NodeLost", "NodeAccepted", "NodeRejected"}

\* C23: in one broadcast run a node is the target of at most one attempt
\* and each attempt draws exactly one loss trial, when it arrives: an arrival
\* is at a node neither visited nor rejected before, the trials drawn are as
\* many as the nodes visited or rejected, no other step draws one, and at
\* most one attempt is on its way, none when the run completes.
C23_AttemptedOnce ==
    /\ [][event'.kind \in ArrivalKinds =>
            /\ event'.trial
            /\ event'.node \notin broadcast_visited \cup broadcast_rejected
            /\ stats'.trials = stats.trials + 1]_vars
    /\ [][event'.kind \in {"Progress", "Complete"} =>
            ~event'.trial /\ stats'.trials = stats.trials]_vars
    /\ [](stats.mode = "broadcast" =>
            /\ stats.trials =
                   Cardinality(broadcast_visited \cup broadcast_rejected)
            /\ stats.trials <= stats.attempts
            /\ stats.attempts <= stats.trials + 1
            /\ Completed => stats.attempts = stats.trials)

\* A run that ended after three attempts, one of them lost and one not
C23_Witness ==
    /\ Completed /\ stats.trials = 3
    /\ broadcast_rejected \ broadcast_visited # {}
    /\ broadcast_visited # {}

\* C24: a broadcast run does not stop at the first acceptance. The arrival
\* that accepts a node leaves the run active and schedules what any arrival
\* schedules: the transit to the next of the remaining neighbours of the
\* same frontier node, or else the expansion of the node just handled with
\* the visited set as it is. The run completes only in a call of
\* _animate_broadcast that finds no unvisited neighbour of its node.
C24_ContinuesAfterAcceptance ==
    /\ [][event'.kind = "NodeAccepted" =>
            /\ animating'
            /\ \E t \in timers \ timers' :
                  /\ t.fn = "segment" /\ t.current_node = event'.node
                  /\ IF t.remaining # <<>>
                     THEN \E t2 \in timers' :
                             /\ t2.fn = "segment"
                             /\ t2.path = <<t.path[1], Head(t.remaining)>>
                             /\ t2.edge_idx = 0 /\ t2.frame = 0
                             /\ t2.remaining = Tail(t.remaining)
                     ELSE \E t2 \in timers' :
                             /\ t2.fn = "broadcast"
                             /\ t2.current_node = event'.node
                             /\ t2.visited = t.visited]_vars
    /\ [][event'.kind = "Complete" =>
            IF run_count' # run_count
            THEN G_adj[stats'.src] = <<>>
            ELSE \E t \in timers \ timers' :
                    /\ t.fn = "broadcast"
                    /\ \A n \in Range(G_adj[t.current_node]) :
                          n \in t.visited]_vars

\* A node arrived after another node had been accepted
C24_Witness ==
    /\ event.kind \in {"NodeRejected", "NodeLost"}
    /\ broadcast_accepted \notin {None, event.node}

\* The events that end a run
TerminalKinds == {"Delivered", "Lost", "LostAtDestination", "Complete"}

\* C25: a run that is neither stopped nor has its topology changed ends in
\* exactly one terminal event, of its mode: a run that is active leads to
\* one, a run becomes inactive in no other way, at the terminal event
\* animating is false and no callback is scheduled, and no event of the run
\* follows it.
C25_OneTerminalEvent ==
    /\ (animating ~> (event.kind \in TerminalKinds /\ ~animating))
    /\ [](event.kind \in TerminalKinds =>
            /\ ~animating /\ timers = {} /\ event.run = run_count
            /\ event.kind = "Complete" <=> stats.mode = "broadcast")
    /\ [][(run_count' # run_count \/ animating) /\ ~animating' =>
            event'.kind \in TerminalKinds]_vars
    /\ [][event.kind \in TerminalKinds => event'.run # event.run]_vars

\* A broadcast that ended by itself after two arrivals
C25_Witness ==
    /\ Completed /\ ~animating /\ timers = {}
    /\ stats.trials >= 2

\* C26: every scheduled step of either simulator tests animating first, so
\* a step that finds it false changes nothing; a step that finds it true
\* draws at most one loss trial and then either schedules exactly one next
\* step and leaves the run active, or schedules none and ends the run.
C26_OneStepAtATime ==
    [][\A t \in timers \ timers' :
          IF ~animating
          THEN /\ timers' = timers \ {t}
               /\ UNCHANGED <<animating, packet_trail, packet_loss_rate,
                              current_path, broadcast_visited,
                              broadcast_rejected, broadcast_accepted, stats>>
          ELSE /\ stats'.trials - stats.trials \in {0, 1}
               /\ \/ animating' /\ Cardinality(timers' \ timers) = 1
                  \/ ~animating' /\ timers' \ timers = {}]_vars

\* C27: during one broadcast run broadcast_visited and broadcast_rejected
\* only grow, and broadcast_accepted, once it holds a node, holds a node for
\* the rest of the run, its end included.
C27_SetsOnlyGrow ==
    [][run_count' = run_count =>
          /\ broadcast_visited \subseteq broadcast_visited'
          /\ broadcast_rejected \subseteq broadcast_rejected'
          /\ broadcast_accepted # None => broadcast_accepted' # None]_vars

\* A run that ended with a node accepted, another visited and one rejected
C27_Witness ==
    /\ Completed /\ broadcast_accepted # None
    /\ Cardinality(broadcast_visited) >= 2 /\ broadcast_rejected # {}

\* The fields of the simulator but for what a cable can show in: the delay
\* of the scheduled callbacks, and the table itself
NoDelay(s) ==
    [s EXCEPT !.timers = {After(0, t) : t \in @}, !.edge_cables = NoCables]

\* The simulator with a cable of kind k, or none, between every two nodes
Recabled(k) == [Sim EXCEPT !.edge_cables = [e \in DOMAIN @ |-> k]]

\* C28: the cable of an edge changes only the delay between the steps of a
\* unicast hop over it: 80 ms for Ethernet, 53 for Fiber Optic, 100 for
\* Wireless. With the same draws, the start of a run and every step of it
\* give, under any other cables, the same path, frames, trials and verdict;
\* only the delays of the callbacks differ.
C28_CablesOnlyDelay ==
    /\ \A t \in timers :
          LET hop == IF t.frame = 0 THEN t.edge_idx - 1 ELSE t.edge_idx
              cable == edge_cables[<<t.path[hop + 1], t.path[hop + 2]>>]
          IN  t.delay = CASE cable = "Fiber Optic" -> 53
                          [] cable = "Wireless" -> 100
                          [] OTHER -> 80
    /\ \A t \in timers, u \in Draws, k \in CableKinds \cup {NoCable} :
          NoDelay(AnimateSmooth(Recabled(k), t, u)) =
              NoDelay(AnimateSmooth(Sim, t, u))
    /\ run_count = 0 =>
          \A src, dst \in G_nodes, u \in Draws,
             k \in CableKinds \cup {NoCable} :
              \A path \in ShortestPaths(src, dst) :
                  NoDelay(StartUnicast(Recabled(k), 1, path, u)) =
                      NoDelay(StartUnicast(Sim, 1, path, u))

\* A packet delivered over three hops, one of each kind of cable
C28_Witness ==
    /\ event.kind = "Delivered" /\ Len(current_path) = 4
    /\ {edge_cables[<<current_path[i], current_path[i + 1]>>] : i \in 1..3}
           = CableKinds

\* C29: after any sequence of add_node, add_edge, remove_edge and
\* remove_selected_node, edge_cables has an entry for (a, b) exactly when
\* the graph has the edge a-b, the entries of (a, b) and (b, a) are equal,
\* no edge joins a node to itself and both ends of an edge are nodes of the
\* graph; the delay of a unicast hop is the same in either direction.
C29_CablesMatchEdges ==
    \A a, b \in NodeIds :
        /\ edge_cables[<<a, b>>] # NoCable <=> HasEdge(a, b)
        /\ edge_cables[<<a, b>>] = edge_cables[<<b, a>>]
        /\ HasEdge(a, b) => a # b /\ b \in G_nodes /\ HasEdge(b, a)
        /\ adjusted_speed(cable_type(edge_cables, a, b)) =
               adjusted_speed(cable_type(edge_cables, b, a))

\* After MaxEditSteps edits: one of four nodes was removed, each of the
\* three left is on an edge, two of them are not joined, and one edge has a
\* Wireless cable
C29_Witness ==
    /\ edits = MaxEditSteps /\ Cardinality(G_nodes) = 3 /\ node_count = 4
    /\ \E a, b \in G_nodes : edge_cables[<<a, b>>] = "Wireless"
    /\ \E a, b \in G_nodes :
          a # b /\ ~HasEdge(a, b) /\ \A n \in G_nodes : G_adj[n] # <<>>

\* C30: the hops of a unicast run are animated strictly in path order. A
\* frame shown is frame 0 of hop 0 at the start, the next frame of the same
\* hop, or frame 0 of the next hop after frame frames_per_edge - 1; its hop
\* is one of 0 .. len(path) - 2 and its frame one of
\* 0 .. frames_per_edge - 1, and it is the frame that many frames after the
\* start; a run ends only after the last frame of a hop.
C30_HopsInOrder ==
    /\ [][InOrder]_vars
    /\ [](event.kind = "HopProgress" =>
            /\ event.hop \in 0..(Len(current_path) - 2)
            /\ event.frame \in 0..(frames_per_edge - 1)
            /\ event.node = current_path[event.hop + 1]
            /\ stats.progress = frames_per_edge * event.hop + event.frame + 1)
    /\ [][(event.kind = "HopProgress" /\ event'.kind # "HopProgress") =>
            /\ event.frame = frames_per_edge - 1
            /\ event'.kind \in {"Delivered", "Lost", "LostAtDestination"}
            /\ stats'.progress = frames_per_edge * (event.hop + 1)]_vars

\* The last frame of the third hop of a path was shown
C30_Witness ==
    /\ event.kind = "HopProgress" /\ event.hop = 2
    /\ event.frame = frames_per_edge - 1 /\ stats.progress = 3 * frames_per_edge

\* C31: after stop_animation was called during a run, and as long as no run
\* is started, animating is false and the trail is empty, and a scheduled
\* step that fires returns at once: it leaves the queue, schedules nothing,
\* reports nothing and leaves animating, the trail, broadcast_visited,
\* broadcast_rejected and broadcast_accepted as they were at the stop.
C31_StoppedStepsDoNothing ==
    /\ [](run_count \in stopped => ~animating /\ packet_trail = 0)
    /\ [][(run_count \in stopped /\ run_count' = run_count
           /\ timers' # timers) =>
            /\ timers' \subseteq timers
            /\ event' = NoEvent
            /\ UNCHANGED <<animating, packet_trail, broadcast_visited,
                           broadcast_rejected, broadcast_accepted,
                           current_path, stats>>]_vars

\* The pending call of a stopped broadcast fired and found it stopped: what
\* the run had visited is still there
C31_Witness ==
    /\ run_count \in stopped /\ event = NoEvent /\ timers = {}
    /\ stats.mode = "broadcast" /\ broadcast_visited # {}

\* C32: at every moment of a single broadcast run the source is neither in
\* broadcast_visited nor in broadcast_rejected; a node whose transit was
\* lost is in broadcast_rejected and not in broadcast_visited, then and for
\* the rest of the run; the accepted node, if there is one, is in
\* broadcast_visited and not in broadcast_rejected; and every node visited
\* and not rejected has an address, that of the target.
C32_BroadcastSetsConsistent ==
    /\ [](stats.mode = "broadcast" =>
            /\ stats.src \notin broadcast_visited \cup broadcast_rejected
            /\ event.kind = "NodeLost" =>
                  event.node \in broadcast_rejected \ broadcast_visited
            /\ broadcast_accepted # None =>
                  broadcast_accepted \in broadcast_visited \ broadcast_rejected
            /\ \A n \in broadcast_visited \ broadcast_rejected :
                  /\ node_ips[n] # None
                  /\ node_ips[n] = node_ips[stats.dst])
    /\ [][run_count' = run_count =>
            (broadcast_rejected \ broadcast_visited) \subseteq
                (broadcast_rejected' \ broadcast_visited')]_vars

\* A run that ended with a node accepted, one lost and one rejected for its
\* address
C32_Witness ==
    /\ Completed /\ broadcast_accepted # None
    /\ broadcast_rejected \ broadcast_visited # {}
    /\ broadcast_rejected \cap broadcast_visited # {}

\* C33: a broadcast start on a graph whose only node is the source is
\* refused before any step: no broadcast run begins on such a graph, and
\* the refusal (the step that reports it, not an edit made after it) leaves
\* animating false and broadcast_visited, broadcast_rejected and
\* broadcast_accepted as the last run left them. A
\* broadcast from a source without neighbours, other nodes being there,
\* begins and completes within the start: visited and rejected are empty,
\* accepted is unset, animating is false and no step is scheduled.
C33_LonelySource ==
    /\ [][(event'.kind = "NoOtherNodes" /\ edits' = edits) =>
            /\ Cardinality(G_nodes) = 1
            /\ ~animating /\ ~animating'
            /\ UNCHANGED <<broadcast_visited, broadcast_rejected,
                           broadcast_accepted, timers, run_count, stats,
                           packet_trail, current_path>>]_vars
    /\ [][(run_count' # run_count /\ stats'.mode = "broadcast") =>
            /\ G_nodes \ {stats'.src} # {}
            /\ G_adj[stats'.src] = <<>> =>
                  /\ event' = Ev(run_count', "Complete", 0, 0, 0, FALSE)
                  /\ ~animating' /\ timers' = timers
                  /\ broadcast_visited' = {} /\ broadcast_rejected' = {}
                  /\ broadcast_accepted' = None]_vars

\* A broadcast was just refused on a graph of one node, and what an earlier
\* broadcast visited is still there
C33_Witness ==
    /\ event.kind = "NoOtherNodes" /\ ~animating
    /\ Cardinality(G_nodes) = 1 /\ broadcast_visited # {}

====
